---- MODULE Spec2Model ----
(***************************************************************************)
(* PubMedXMLParser (src/parsers.py): extraction of article records from a  *)
(* PubMed XML batch, the review filters and the text normalizer.           *)
(*                                                                         *)
(* Strings are sequences of one-character strings.  An XML element is a    *)
(* record; an optional child that is missing is Missing, and an element   *)
(* without text has text NoText (lxml's .text of an empty element).       *)
(***************************************************************************)
EXTENDS Integers, Sequences, FiniteSets, TLC

VARIABLES
    batch,      \* parse_file: the PubmedArticle elements the loop has visited
    records,    \* parse_file: the records yielded so far, in order
    gen,        \* parse_file's generator: "created", "yielded", "discarded",
                \* "raised" or "exhausted"
    text,       \* _clean_text: the fragment handed to the normalizer
    cleaned,    \* _clean_text(text)
    recleaned,  \* _clean_text(_clean_text(text))
    pc          \* _clean_text: "unused", "input", "cleaned" or "recleaned"

vars == <<batch, records, gen, text, cleaned, recleaned, pc>>

(***************************************************************************)
(* Bounds                                                                  *)
(***************************************************************************)
MaxBatch == 2       \* PubmedArticle elements per batch
MaxPieces == 3      \* pieces concatenated into a normalizer input

(***************************************************************************)
(* Characters                                                              *)
(***************************************************************************)
Absent == "ABSENT"          \* no character at this position
EnDash == "\\u2013"
OtherChar == "\\uFFFD"      \* any character outside the modelled alphabet

Whitespace == {" ", "\n", "\t", "\r"}
Digits == {"0", "1", "2", "3", "4", "5", "6", "7", "8", "9"}
DigitSeq == <<"0", "1", "2", "3", "4", "5", "6", "7", "8", "9">>
UpperSeq == <<"A", "B", "C", "D", "E", "F", "G", "H", "I", "J", "K", "L", "M",
              "N", "O", "P", "Q", "R", "S", "T", "U", "V", "W", "X", "Y", "Z">>
LowerSeq == <<"a", "b", "c", "d", "e", "f", "g", "h", "i", "j", "k", "l", "m",
              "n", "o", "p", "q", "r", "s", "t", "u", "v", "w", "x", "y", "z">>
Range(f) == {f[i] : i \in DOMAIN f}
Letters == Range(UpperSeq) \cup Range(LowerSeq)
HexChars == Digits \cup {"a", "b", "c", "d", "e", "f", "A", "B", "C", "D", "E", "F"}

\* str.lower() on one character, and on a string
LowerOf == [c \in Range(UpperSeq) |-> LowerSeq[CHOOSE i \in DOMAIN UpperSeq : UpperSeq[i] = c]]
LowerChar(c) == IF c \in DOMAIN LowerOf THEN LowerOf[c] ELSE c
lower(s) == [i \in DOMAIN s |-> LowerChar(s[i])]

\* needle in haystack
Contains(haystack, needle) ==
    \E i \in 1..(Len(haystack) - Len(needle) + 1) :
        \A k \in 1..Len(needle) : haystack[i + k - 1] = needle[k]

\* first index >= i whose character is not in S (Len(s)+1 when the run reaches the end)
RunEnd(s, i, S) ==
    CHOOSE j \in i..(Len(s) + 1) :
        /\ \A k \in i..(j - 1) : s[k] \in S
        /\ j = Len(s) + 1 \/ s[j] \notin S

\* first index >= i whose character is in S (Len(s)+1 when there is none)
RunUntil(s, i, S) ==
    CHOOSE j \in i..(Len(s) + 1) :
        /\ \A k \in i..(j - 1) : s[k] \notin S
        /\ j = Len(s) + 1 \/ s[j] \in S

At(s, i) == IF i \in 1..Len(s) THEN s[i] ELSE Absent

RECURSIVE Flatten(_)
Flatten(ss) == IF ss = <<>> THEN <<>> ELSE Head(ss) \o Flatten(Tail(ss))

(***************************************************************************)
(* Text normalizer: PubMedXMLParser._clean_text                            *)
(***************************************************************************)
TagXref == <<"x", "r", "e", "f">>
TagA == <<"a">>
TagSub == <<"s", "u", "b">>
TagSup == <<"s", "u", "p">>
LinkTags == {TagXref, TagA}             \* find_all(["xref", "a"])
SubSupTags == {TagSub, TagSup}          \* find_all(["sub", "sup"])

\* the named references BeautifulSoup resolves in these documents
EntityChar(name) ==
    CASE name = <<"a", "m", "p">> -> <<"&">>
      [] name = <<"l", "t">> -> <<"<">>
      [] name = <<"g", "t">> -> <<">">>
      [] name = <<"q", "u", "o", "t">> -> <<"\"">>
      [] OTHER -> <<"&">> \o name       \* unknown name: the literal "&name"

\* int(id, base) of a digit string, capped at cap + 1
HexSeq == <<"0", "1", "2", "3", "4", "5", "6", "7", "8", "9", "a", "b", "c", "d", "e", "f">>
RECURSIVE IntCapped(_, _, _, _)
IntCapped(ds, base, acc, cap) ==
    IF ds = <<>> THEN acc
    ELSE LET d == (CHOOSE i \in DOMAIN HexSeq : HexSeq[i] = LowerChar(Head(ds))) - 1
             v == acc * base + d
         IN IF v > cap THEN cap + 1 ELSE IntCapped(Tail(ds), base, v, cap)

MaxCodePoint == 1114111                 \* sys.maxunicode: chr() raises above it

\* chr(n) for the code points of the modelled alphabet
chr(n) ==
    CASE n \in 48..57 -> DigitSeq[n - 47]
      [] n \in 65..90 -> UpperSeq[n - 64]
      [] n \in 97..122 -> LowerSeq[n - 96]
      [] n = 9 -> "\t"
      [] n = 10 -> "\n"
      [] n = 13 -> "\r"
      [] n = 32 -> " "
      [] n = 34 -> "\""
      [] n = 35 -> "#"
      [] n = 38 -> "&"
      [] n = 39 -> "'"
      [] n = 40 -> "("
      [] n = 41 -> ")"
      [] n = 44 -> ","
      [] n = 45 -> "-"
      [] n = 46 -> "."
      [] n = 47 -> "/"
      [] n = 58 -> ":"
      [] n = 59 -> ";"
      [] n = 60 -> "<"
      [] n = 61 -> "="
      [] n = 62 -> ">"
      [] n = 91 -> "["
      [] n = 93 -> "]"
      [] n = 95 -> "_"
      [] n = 123 -> "{"
      [] n = 125 -> "}"
      [] n = 8211 -> EnDash
      [] OTHER -> OtherChar

\* BeautifulSoup's handle_charref: code points below 256 are read as
\* windows-1252 (150 is the en dash), an impossible one gives U+FFFD
CharRef(n) ==
    IF n = 150 THEN EnDash
    ELSE IF n > MaxCodePoint THEN OtherChar
    ELSE chr(n)

\* html.parser's tokenizer at position i of the fragment: a start tag, an end
\* tag, a bogus end tag (a comment, which get_text() leaves out), a character
\* or entity reference, or one character of text.  A construct that is cut
\* short ("stall") stops feed(); close() then emits chars and goes on at next.
\* kind, name (lower-cased tag name), chars (text produced), next, closed;
\* for a stall also fchars and fnext, what feed() emits and where close() resumes
TagNameStop == Whitespace \cup {"/", ">"}
Token(kind, name, chars, next, closed) ==
    [kind |-> kind, name |-> name, chars |-> chars, next |-> next, closed |-> closed,
     fchars |-> <<>>, fnext |-> next]
Stall(chars, next, fchars, fnext) ==
    [kind |-> "stall", name |-> <<>>, chars |-> chars, next |-> next, closed |-> FALSE,
     fchars |-> fchars, fnext |-> fnext]
TokenAt(s, i) ==
    LET txt == Token("text", <<>>, <<s[i]>>, i + 1, FALSE)
        rest == SubSeq(s, i, Len(s))
        gt == RunUntil(s, i, {">"})
        lt == RunUntil(s, i + 1, {"<"})
        \* no ">" closes the tag: the text up to the next "<" is passed through
        cut == IF lt <= Len(s) THEN Stall(SubSeq(s, i, lt - 1), lt, <<>>, i)
               ELSE Stall(<<s[i]>>, i + 1, <<>>, i)
    IN
    IF s[i] = "<" THEN
        IF At(s, i + 1) = "/" THEN
            IF gt > Len(s) THEN cut
            ELSE IF At(s, i + 2) \in Letters
            THEN Token("end", lower(SubSeq(s, i + 2, RunUntil(s, i + 2, TagNameStop) - 1)),
                       <<>>, gt + 1, FALSE)
            ELSE Token("comment", <<>>, <<>>, gt + 1, FALSE)
        ELSE IF At(s, i + 1) \in Letters THEN
            IF gt > Len(s) THEN cut
            ELSE Token("start", lower(SubSeq(s, i + 1, RunUntil(s, i + 1, TagNameStop) - 1)),
                       <<>>, gt + 1, s[gt - 1] = "/")
        ELSE txt
    ELSE IF s[i] = "&" THEN
        IF At(s, i + 1) = "#" THEN
            LET hex == At(s, i + 2) \in {"x", "X"}
                from == IF hex THEN i + 3 ELSE i + 2
                e == RunEnd(s, from, IF hex THEN HexChars ELSE Digits)
            IN IF e > from /\ e <= Len(s) /\ s[e] \notin HexChars
               THEN LET n == IntCapped(SubSeq(s, from, e - 1), IF hex THEN 16 ELSE 10,
                                       0, MaxCodePoint)
                    IN Token("text", <<>>,
                             <<CharRef(n)>>,
                             IF s[e] = ";" THEN e + 1 ELSE e, FALSE)
               ELSE IF RunUntil(s, i, {";"}) <= Len(s)
               THEN Stall(rest, Len(s) + 1, <<"&", "#">>, i + 2)
               ELSE Stall(rest, Len(s) + 1, <<>>, i)
        ELSE IF At(s, i + 1) \in Letters THEN
            LET run == RunEnd(s, i + 1, Letters \cup Digits \cup {"-", "."})
                \* the name must be followed by a character that is no letter or digit
                ends == {k \in (i + 2)..Len(s) : k <= run /\ s[k] \notin Letters \cup Digits}
                e == IF ends = {} THEN Len(s) + 1
                     ELSE CHOOSE k \in ends : \A m \in ends : m <= k
            IN IF e <= Len(s)
               THEN Token("text", <<>>, EntityChar(SubSeq(s, i + 1, e - 1)),
                          IF s[e] = ";" THEN e + 1 ELSE e, FALSE)
               ELSE Stall(IF Len(s) = i + 1 THEN <<s[i + 1]>> ELSE rest, Len(s) + 1, <<>>, i)
        ELSE txt
    ELSE txt

\* BeautifulSoup's _popToTag: close the most recent open tag of that name and
\* everything opened inside it; an end tag that matches no open tag is dropped
PopToTag(stack, name) ==
    IF \E k \in DOMAIN stack : stack[k] = name
    THEN SubSeq(stack, 1, (CHOOSE k \in DOMAIN stack :
                              /\ stack[k] = name
                              /\ \A m \in DOMAIN stack : stack[m] = name => m <= k) - 1)
    ELSE stack

InLink(stack) == \E k \in DOMAIN stack : stack[k] \in LinkTags
InSubSup(stack) == \E k \in DOMAIN stack : stack[k] \in SubSupTags

\* lines 75-83: parse the fragment, extract <xref> and <a> with their
\* content, replace each outermost <sub>/<sup> by "-" + its text, get_text()
RECURSIVE SoupText(_, _, _, _)
SoupText(s, i, stack, closing) ==
    IF i > Len(s) THEN <<>>
    ELSE LET t == TokenAt(s, i)
             Shown(chars) == IF InLink(stack) THEN <<>> ELSE chars
         IN CASE t.kind = "text" ->
                   Shown(t.chars) \o SoupText(s, t.next, stack, closing)
              [] t.kind = "start" ->
                   (IF t.name \in SubSupTags /\ ~InLink(stack) /\ ~InSubSup(stack)
                    THEN <<"-">> ELSE <<>>)
                   \o SoupText(s, t.next, IF t.closed THEN stack ELSE Append(stack, t.name),
                               closing)
              [] t.kind = "end" ->
                   SoupText(s, t.next, PopToTag(stack, t.name), closing)
              [] t.kind = "comment" ->
                   SoupText(s, t.next, stack, closing)
              [] t.kind = "stall" ->
                   IF closing THEN Shown(t.chars) \o SoupText(s, t.next, stack, TRUE)
                   ELSE Shown(t.fchars) \o SoupText(s, t.fnext, stack, TRUE)

\* lines 109-117: re.sub(r"&#(\d+)(;|(?=\s))", _callback, text)
RECURSIVE _decode_unicode_references(_)
_decode_unicode_references(s) ==
    IF s = <<>> THEN <<>>
    ELSE LET e == RunEnd(s, 3, Digits)
             id == SubSeq(s, 3, e - 1)
             n == IntCapped(id, 10, 0, MaxCodePoint)
         IN IF /\ s[1] = "&" /\ At(s, 2) = "#" /\ e > 3
               /\ (At(s, e) = ";" \/ At(s, e) \in Whitespace)
            THEN (IF n > MaxCodePoint THEN id ELSE <<chr(n)>>)
                 \o _decode_unicode_references(
                        SubSeq(s, IF s[e] = ";" THEN e + 1 ELSE e, Len(s)))
            ELSE <<Head(s)>> \o _decode_unicode_references(Tail(s))

\* line 27: (\s*?\[[ \-–,;]*?\])|(\s+?\([ \-–,;]*?\)) ; the length of the match
\* that starts at the head of s, 0 when there is none
BracketFill_with_digits == {" ", "-", EnDash, ",", ";"} \cup Digits
BracketFill == {" ", "-", EnDash, ",", ";"}
EmptyBracketMatch(s) ==
    LET o == RunEnd(s, 1, Whitespace)
        c == RunEnd(s, o + 1, BracketFill)
    IN IF At(s, o) = "[" /\ At(s, c) = "]" THEN c
       ELSE IF o > 1 /\ At(s, o) = "(" /\ At(s, c) = ")" THEN c
       ELSE 0

\* line 87: _empty_brackets_re.sub('', text)
RECURSIVE _empty_brackets_re_sub(_)
_empty_brackets_re_sub(s) ==
    IF s = <<>> THEN <<>>
    ELSE LET m == EmptyBracketMatch(s)
         IN IF m > 0 THEN _empty_brackets_re_sub(SubSeq(s, m + 1, Len(s)))
            ELSE <<Head(s)>> \o _empty_brackets_re_sub(Tail(s))

\* line 28: (\s+[-,;]\s+?)+ ; the length of the match that starts at the head
\* of s, 0 when there is none.  \s+ takes the whole run of whitespace, \s+?
\* one character, and the group repeats while it still matches.
Delimiters == {"-", ",", ";"}
RECURSIVE DelimiterMatch(_, _)
DelimiterMatch(s, i) ==
    LET d == RunEnd(s, i, Whitespace)
    IN IF d > i /\ At(s, d) \in Delimiters /\ At(s, d + 1) \in Whitespace
       THEN LET more == DelimiterMatch(s, d + 2)
            IN IF more > 0 THEN more ELSE d + 1
       ELSE 0

\* line 88: _spaces_with_delimeter_re.sub(' ', text)
RECURSIVE _spaces_with_delimeter_re_sub(_)
_spaces_with_delimeter_re_sub(s) ==
    IF s = <<>> THEN <<>>
    ELSE LET m == DelimiterMatch(s, 1)
         IN IF m > 0 THEN <<" ">> \o _spaces_with_delimeter_re_sub(SubSeq(s, m + 1, Len(s)))
            ELSE <<Head(s)>> \o _spaces_with_delimeter_re_sub(Tail(s))

\* line 89: _whitespaces_re.sub(' ', text), the pattern \s{2,}
RECURSIVE _whitespaces_re_sub(_)
_whitespaces_re_sub(s) ==
    IF s = <<>> THEN <<>>
    ELSE LET e == RunEnd(s, 1, Whitespace)
         IN IF e > 2 THEN <<" ">> \o _whitespaces_re_sub(SubSeq(s, e, Len(s)))
            ELSE <<Head(s)>> \o _whitespaces_re_sub(Tail(s))

\* str.strip()
strip(s) ==
    LET b == RunEnd(s, 1, Whitespace)
    IN IF b > Len(s) THEN <<>>
       ELSE SubSeq(s, b, CHOOSE j \in b..Len(s) :
                            /\ s[j] \notin Whitespace
                            /\ \A k \in (j + 1)..Len(s) : s[k] \in Whitespace)

\* lines 73-90
_clean_text(s) ==
    strip(_whitespaces_re_sub(_spaces_with_delimeter_re_sub(
        _empty_brackets_re_sub(_decode_unicode_references(SoupText(s, 1, <<>>, FALSE))))))

(***************************************************************************)
(* The normalizer applied to a fragment, and applied again to its result   *)
(***************************************************************************)
\* the fragment of the worked example
Fragment ==
    <<"<", "i", ">", "B", "a", "c", "k", "g", "r", "o", "u", "n", "d", "<", "/", "i", ">",
      ":", " ", "v", "a", "l", "u", "e", "s", " ", "w", "e", "r", "e", " ",
      "<", "s", "u", "p", ">", "2", "<", "/", "s", "u", "p", ">",
      "e", "l", "e", "v", "a", "t", "e", "d", " ", "[", "1", "2", "]", ".">>

\* pieces of markup-bearing text; a fragment is a concatenation of pieces
Pieces ==
    { <<"7">>, <<" ">>, <<"-">>, <<",">>, <<"[">>, <<"]">>, <<"(">>, <<")">>,
      <<"<", "s", "u", "b", ">">>, <<"<", "/", "s", "u", "b", ">">>,
      <<"<", "x", "r", "e", "f", ">">>, <<"<", "/", "x", "r", "e", "f", ">">>,
      <<"<", "b", ">">>, <<"&", "l", "t", ";">>, <<"b", "&", "g", "t", ";">>,
      <<"&", "a", "m", "p", ";">>, <<"#", "9", "1", ";">>, <<"&", "#", "9", "3", ";">> }

RECURSIVE PieceSeqs(_)
PieceSeqs(n) ==
    IF n = 0 THEN {<<>>}
    ELSE LET shorter == PieceSeqs(n - 1)
         IN shorter \cup {Append(ps, p) : ps \in {q \in shorter : Len(q) = n - 1}, p \in Pieces}

\* fragments with nested brackets, escaped markup and repeated separators
Examples ==
    { <<"[", "[", "]", "]">>,
      <<"&", "l", "t", ";", "b", "&", "g", "t", ";", "x", "&", "l", "t", ";", "/", "b", "&", "g", "t", ";">>,
      <<"a", " ", "-", " ", ",", " ", "b">>,
      <<"a", " ", "(", " ", "-", " ", ")", " ", "b">> }

Fragments == {Flatten(ps) : ps \in PieceSeqs(MaxPieces)} \cup {Fragment} \cup Examples

InitClean ==
    /\ text \in Fragments
    /\ cleaned = <<>>
    /\ recleaned = <<>>
    /\ pc = "input"
    /\ batch = <<>>
    /\ records = <<>>
    /\ gen = "created"

\* text = cls._clean_text(text)
Clean ==
    /\ pc = "input"
    /\ cleaned' = _clean_text(text)
    /\ pc' = "cleaned"
    /\ UNCHANGED <<text, recleaned, batch, records, gen>>

\* the normalizer applied to its own output
CleanAgain ==
    /\ pc = "cleaned"
    /\ recleaned' = _clean_text(cleaned)
    /\ pc' = "recleaned"
    /\ UNCHANGED <<text, cleaned, batch, records, gen>>

NextClean == Clean \/ CleanAgain

SpecClean == InitClean /\ [][NextClean]_vars

(***************************************************************************)
(* XML elements as lxml presents them                                      *)
(***************************************************************************)
Missing == <<>>             \* find() returned None; findall() returned []
El(x) == <<x>>              \* find() returned the element x
NoText == <<>>              \* .text of an element without text: None
Found(f) == f # <<>>        \* `is not None`

\* what a call gives back: a value, or an exception that propagates
Return(v) == [raised |-> FALSE, value |-> v]
Raise(exc) == [raised |-> TRUE, value |-> exc]

\* str(x) inside an f-string: a string as it is, None as "None"
Str(t) == IF t = NoText THEN <<"N", "o", "n", "e">> ELSE t

\* `el.text is not None and 'review' in el.text.lower()` for some el of els
Review == <<"r", "e", "v", "i", "e", "w">>
ReviewIn_case_sensitive(texts) ==
    \E k \in DOMAIN texts : texts[k] # NoText /\ Contains(texts[k], Review)
ReviewIn(texts) ==
    \E k \in DOMAIN texts : texts[k] # NoText /\ Contains(lower(texts[k]), Review)

\* lines 131-137: the MeshHeading loop; "raise" when a heading has no
\* DescriptorName (None.text), "true" at the first match, else "false"
RECURSIVE MeshScan(_)
MeshScan(headings) ==
    IF headings = <<>> THEN "false"
    ELSE LET descriptor_name_el == Head(headings).DescriptorName
         IN IF ~Found(descriptor_name_el) THEN "raise"
            ELSE IF descriptor_name_el[1] # NoText
                    /\ Contains(lower(descriptor_name_el[1]), Review) THEN "true"
            ELSE MeshScan(Tail(headings))

\* _is_review without the scan of the keyword list
_is_review_without_keywords(medline_citation_el) ==
    IF ~Found(medline_citation_el.Article) THEN Raise("AttributeError")
    ELSE LET article_el == medline_citation_el.Article[1]
             mesh == IF Found(medline_citation_el.MeshHeadingList)
                     THEN MeshScan(medline_citation_el.MeshHeadingList[1])
                     ELSE "false"
         IN IF Found(article_el.PublicationTypeList)
               /\ ReviewIn(article_el.PublicationTypeList[1]) THEN Return(TRUE)
            ELSE IF mesh = "raise" THEN Raise("AttributeError")
            ELSE IF mesh = "true" THEN Return(TRUE)
            ELSE Return(FALSE)

\* lines 119-145
_is_review(medline_citation_el) ==
    IF ~Found(medline_citation_el.Article) THEN Raise("AttributeError")
    ELSE LET article_el == medline_citation_el.Article[1]
             mesh == IF Found(medline_citation_el.MeshHeadingList)
                     THEN MeshScan(medline_citation_el.MeshHeadingList[1])
                     ELSE "false"
         IN IF Found(article_el.PublicationTypeList)
               /\ ReviewIn(article_el.PublicationTypeList[1]) THEN Return(TRUE)
            ELSE IF mesh = "raise" THEN Raise("AttributeError")
            ELSE IF mesh = "true" THEN Return(TRUE)
            ELSE IF Found(medline_citation_el.KeywordList)
                    /\ ReviewIn(medline_citation_el.KeywordList[1]) THEN Return(TRUE)
            ELSE Return(FALSE)

\* lines 147-158
filtering_phrase == <<"s", "y", "s", "t", "e", "m", "a", "t", "i", "c", " ", "r", "e", "v", "i", "e", "w">>
_is_review_in_text(t) == Contains(lower(t), filtering_phrase)

\* libxml2's escaping of an attribute value
RECURSIVE EscapeAttr(_)
EscapeAttr(v) ==
    IF v = <<>> THEN <<>>
    ELSE (CASE Head(v) = "&" -> <<"&", "a", "m", "p", ";">>
            [] Head(v) = "<" -> <<"&", "l", "t", ";">>
            [] Head(v) = ">" -> <<"&", "g", "t", ";">>
            [] Head(v) = "\"" -> <<"&", "q", "u", "o", "t", ";">>
            [] Head(v) = EnDash -> <<"&", "#", "8", "2", "1", "1", ";">>
            [] OTHER -> <<Head(v)>>) \o EscapeAttr(Tail(v))

\* etree.tostring(el).decode('utf-8') of an ArticleTitle or AbstractText
\* element: its tag and attributes, its content as serialized XML, its tail
tostring(tag, el) ==
    LET attrs == IF Found(el.NlmCategory)
                 THEN <<" ", "N", "l", "m", "C", "a", "t", "e", "g", "o", "r", "y", "=", "\"">> \o EscapeAttr(el.NlmCategory[1]) \o <<"\"">>
                 ELSE <<>>
    IN IF el.inner = <<>>
       THEN <<"<">> \o tag \o attrs \o <<"/", ">">> \o el.tail
       ELSE <<"<">> \o tag \o attrs \o <<">">> \o el.inner \o <<"<", "/">> \o tag \o <<">">> \o el.tail

\* lines 100-106: what a cleaned segment adds to texts
Segment(abstract_text_el, abstract_text) ==
    IF abstract_text = <<>> THEN <<>>
    ELSE <<[k \in {"text"} \cup (IF Found(abstract_text_el.NlmCategory)
                                 THEN {"nlm_category"} ELSE {})
              |-> IF k = "text" THEN abstract_text
                  ELSE abstract_text_el.NlmCategory[1]]>>

\* lines 97-106: the loop over findall('AbstractText')
RECURSIVE TextsOf(_)
TextsOf(abstract_text_els) ==
    IF abstract_text_els = <<>> THEN <<>>
    ELSE Segment(Head(abstract_text_els),
                 _clean_text(tostring(<<"A", "b", "s", "t", "r", "a", "c", "t", "T", "e", "x", "t">>,
                                      Head(abstract_text_els))))
         \o TextsOf(Tail(abstract_text_els))

\* lines 92-107
_get_texts(article_el) ==
    IF Found(article_el.Abstract) THEN TextsOf(article_el.Abstract[1]) ELSE <<>>

\* repr() of a str
RECURSIVE Escaped(_, _)
Escaped(t, quote) ==
    IF t = <<>> THEN <<>>
    ELSE (CASE Head(t) = "\n" -> <<"\\", "n">>
            [] Head(t) = "\t" -> <<"\\", "t">>
            [] Head(t) = "\r" -> <<"\\", "r">>
            [] Head(t) = quote -> <<"\\", quote>>
            [] Head(t) = "\\" -> <<"\\", "\\">>
            [] OTHER -> <<Head(t)>>) \o Escaped(Tail(t), quote)
repr(t) ==
    LET quote == IF "'" \in Range(t) /\ "\"" \notin Range(t) THEN "\"" ELSE "'"
    IN <<quote>> \o Escaped(t, quote) \o <<quote>>

\* str() of the abstract_texts list of dicts
ReprSegment(seg) ==
    <<"{", "'", "t", "e", "x", "t", "'", ":", " ">> \o repr(seg["text"])
    \o (IF "nlm_category" \in DOMAIN seg
        THEN <<",", " ", "'", "n", "l", "m", "_", "c", "a", "t", "e", "g", "o", "r", "y", "'", ":", " ">> \o repr(seg["nlm_category"]) ELSE <<>>)
    \o <<"}">>
RECURSIVE JoinSegments(_)
JoinSegments(texts) ==
    IF texts = <<>> THEN <<>>
    ELSE ReprSegment(Head(texts))
         \o (IF Tail(texts) = <<>> THEN <<>> ELSE <<",", " ">> \o JoinSegments(Tail(texts)))
StrList(texts) == <<"[">> \o JoinSegments(texts) \o <<"]">>

(***************************************************************************)
(* Field extractors                                                        *)
(***************************************************************************)
\* lines 32-37
author_name_parse_map ==
    [ForeName |-> "first_name", LastName |-> "last_name",
     Initials |-> "initials", Suffix |-> "suffix"]

\* lines 55-59: the children of one Author element, in document order; a
\* child is [tag, text]
RECURSIVE AuthorFields(_, _, _)
AuthorFields(name_els, author, collective_name) ==
    IF name_els = <<>> THEN [author |-> author, collective_name |-> collective_name]
    ELSE LET name_el == Head(name_els)
         IN IF name_el.tag \in DOMAIN author_name_parse_map
            THEN AuthorFields(Tail(name_els),
                              [k \in DOMAIN author \cup {author_name_parse_map[name_el.tag]}
                                 |-> IF k = author_name_parse_map[name_el.tag]
                                     THEN name_el.text ELSE author[k]],
                              collective_name)
            ELSE IF name_el.tag = "CollectiveName"
            THEN AuthorFields(Tail(name_els), author, name_el.text)
            ELSE AuthorFields(Tail(name_els), author, collective_name)

\* lines 53-61
RECURSIVE AuthorLoop(_, _, _)
AuthorLoop(author_els, authors, collective_name) ==
    IF author_els = <<>> THEN <<authors, collective_name>>
    ELSE LET r == AuthorFields(Head(author_els), <<>>, collective_name)
         IN AuthorLoop(Tail(author_els),
                       IF DOMAIN r.author # {} THEN Append(authors, r.author) ELSE authors,
                       r.collective_name)

\* lines 47-62: (authors, collective_name); collective_name None is NoText
_get_authors(article_el) ==
    IF Found(article_el.AuthorList) THEN AuthorLoop(article_el.AuthorList[1], <<>>, NoText)
    ELSE <<<<>>, NoText>>

\* calendar
IsLeap(y) == (y % 4 = 0 /\ y % 100 # 0) \/ y % 400 = 0
DaysIn(y, m) ==
    IF m = 2 THEN (IF IsLeap(y) THEN 29 ELSE 28)
    ELSE IF m \in {4, 6, 9, 11} THEN 30 ELSE 31
int(ds) == IntCapped(ds, 10, 0, 9999)

\* datetime.datetime.strptime(s, '%Y-%m-%d'): the date as <<year, month, day>>,
\* ValueError when s does not have that form or names no calendar day
strptime(s) ==
    LET mlen == IF At(s, 8) = "-" /\ At(s, 6) \in Digits /\ At(s, 7) \in Digits
                   /\ int(SubSeq(s, 6, 7)) \in 1..12 THEN 2
                ELSE IF At(s, 7) = "-" /\ At(s, 6) \in Digits \ {"0"} THEN 1
                ELSE 0
        dd == SubSeq(s, 7 + mlen, Len(s))
        dayform == \/ Len(dd) = 2 /\ dd[1] \in Digits /\ dd[2] \in Digits
                      /\ int(dd) \in 1..31
                   \/ Len(dd) = 1 /\ dd[1] \in Digits \ {"0"}
                   \/ Len(dd) = 2 /\ dd[1] = " " /\ dd[2] \in Digits \ {"0"}
        y == int(SubSeq(s, 1, 4))
        m == int(SubSeq(s, 6, 5 + mlen))
        d == int(IF dd[1] = " " THEN <<dd[2]>> ELSE dd)
    IN IF /\ Len(s) >= 8
          /\ \A k \in 1..4 : s[k] \in Digits
          /\ s[5] = "-"
          /\ mlen > 0
          /\ dayform
          /\ y >= 1
          /\ d <= DaysIn(y, m)
       THEN Return(<<y, m, d>>)
       ELSE Raise("ValueError")

\* lines 64-71; the result None is NoDate
NoDate == <<>>
_get_date(container_el, key) ==
    LET date_el == container_el[key]
    IN IF ~Found(date_el) THEN Return(NoDate)
       ELSE IF ~Found(date_el[1].Year) \/ ~Found(date_el[1].Month) \/ ~Found(date_el[1].Day)
       THEN Raise("AttributeError")
       ELSE strptime(Str(date_el[1].Year[1]) \o <<"-">> \o Str(date_el[1].Month[1])
                     \o <<"-">> \o Str(date_el[1].Day[1]))

\* the fallback date tried before the Year element
PubDateYear_fallback_first(article_el) ==
    IF Found(article_el.MedlineDate) /\ article_el.MedlineDate[1] # NoText
    THEN Return(SubSeq(article_el.MedlineDate[1], 1,
                       IF Len(article_el.MedlineDate[1]) < 4
                       THEN Len(article_el.MedlineDate[1]) ELSE 4))
    ELSE IF Found(article_el.Year) THEN Return(article_el.Year[1])
    ELSE Raise("AttributeError")

\* lines 178-181: article_data_dict['date']
PubDateYear(article_el) ==
    IF Found(article_el.Year) THEN Return(article_el.Year[1])
    ELSE IF ~Found(article_el.MedlineDate) THEN Raise("AttributeError")
    ELSE IF article_el.MedlineDate[1] = NoText THEN Raise("TypeError")
    ELSE Return(SubSeq(article_el.MedlineDate[1], 1,
                       IF Len(article_el.MedlineDate[1]) < 4
                       THEN Len(article_el.MedlineDate[1]) ELSE 4))

(***************************************************************************)
(* Article record extractor                                                *)
(***************************************************************************)
source_name == <<"p", "u", "b", "m", "e", "d">>       \* line 31

Discard == [kind |-> "none"]                        \* return None
Failure(exc) == [kind |-> "raise", exc |-> exc]     \* the exception propagates
Record(d) == [kind |-> "record", data |-> d]        \* return article_data_dict

\* lines 185-190: the cleaned title, "" when there is none
Title(article_el) ==
    IF Found(article_el.ArticleTitle)
    THEN _clean_text(tostring(<<"A", "r", "t", "i", "c", "l", "e", "T", "i", "t", "l", "e">>, article_el.ArticleTitle[1]))
    ELSE <<>>

\* lines 195-196: the text handed to _is_review_in_text
ReviewText(title, texts) ==
    strip(title \o <<"\n">> \o (IF texts # <<>> THEN StrList(texts) ELSE <<>>))

\* lines 175-215, with what lines 174-208 read from the entry: the date
\* and the journal title come before the title/abstract gate
article_data_dict(pmid, texts, date, journal_title_el, title, people, date_completed, date_revised, date_article) ==
    IF date.raised THEN Failure(date.value)
    ELSE IF ~Found(journal_title_el) THEN Failure("AttributeError")
    ELSE IF title = <<>> /\ texts = <<>> THEN Discard
    ELSE IF _is_review_in_text(ReviewText(title, texts)) THEN Discard
    ELSE IF date_completed.raised THEN Failure(date_completed.value)
    ELSE IF date_revised.raised THEN Failure(date_revised.value)
    ELSE IF date_article.raised THEN Failure(date_article.value)
    ELSE Record(
        [k \in {"pmid", "id", "date", "journal_title",
                "date_completed", "date_revised", "date_article"}
               \cup (IF texts # <<>> THEN {"abstract_texts"} ELSE {})
               \cup (IF title # <<>> THEN {"title"} ELSE {})
               \cup (IF people[1] # <<>> THEN {"authors"} ELSE {})
               \cup (IF people[2] # NoText THEN {"collective_name"} ELSE {})
         |-> CASE k = "pmid" -> pmid
               [] k = "id" -> source_name \o <<"_">> \o Str(pmid)
               [] k = "abstract_texts" -> texts
               [] k = "date" -> date.value
               [] k = "journal_title" -> journal_title_el[1]
               [] k = "title" -> title
               [] k = "authors" -> people[1]
               [] k = "collective_name" -> people[2]
               [] k = "date_completed" -> date_completed.value
               [] k = "date_revised" -> date_revised.value
               [] k = "date_article" -> date_article.value])

\* lines 164-173: the identifier gate and the structural-review gate
Gates(medline_citation_el, review) ==
    IF ~Found(medline_citation_el.PMID) THEN Discard
    ELSE IF review.raised THEN Failure(review.value)
    ELSE IF review.value THEN Discard
    ELSE article_data_dict(medline_citation_el.PMID[1],
                           _get_texts(medline_citation_el.Article[1]),
                           PubDateYear(medline_citation_el.Article[1]),
                           medline_citation_el.Article[1].JournalTitle,
                           Title(medline_citation_el.Article[1]),
                           _get_authors(medline_citation_el.Article[1]),
                           _get_date(medline_citation_el, "DateCompleted"),
                           _get_date(medline_citation_el, "DateRevised"),
                           _get_date(medline_citation_el.Article[1], "ArticleDate"))

\* lines 160-215
_get_abstract_data_from_xml_el(pubmed_article_el) ==
    IF ~Found(pubmed_article_el.MedlineCitation) THEN Failure("AttributeError")
    ELSE Gates(pubmed_article_el.MedlineCitation[1],
               _is_review(pubmed_article_el.MedlineCitation[1]))

(***************************************************************************)
(* PubmedArticle elements of a batch                                       *)
(***************************************************************************)
TextEl(inner, category) == [inner |-> inner, NlmCategory |-> category, tail |-> <<"\n">>]
Heading(descriptor) == [DescriptorName |-> descriptor]
Child(tag, t) == [tag |-> tag, text |-> t]
DateEl(y, m, d) == [Year |-> y, Month |-> m, Day |-> d]

\* a complete, accepted entry; the families below vary it field by field
Plain ==
    [citation |-> TRUE, pmid |-> El(<<"7">>), article |-> TRUE,
     pubTypes |-> El(<<<<"L", "e", "t", "t", "e", "r">>>>), mesh |-> Missing, keywords |-> Missing,
     title |-> El(TextEl(<<"x">>, Missing)),
     abstract |-> El(<<TextEl(<<"y">>, Missing)>>),
     year |-> El(<<"2", "0", "0", "1">>), medlineDate |-> Missing, journalTitle |-> El(<<"J">>),
     authorList |-> Missing,
     dateCompleted |-> Missing, dateRevised |-> Missing, articleDate |-> Missing]

\* the element tree of an entry
Assemble(f) ==
    [MedlineCitation |->
        IF ~f.citation THEN Missing
        ELSE El([PMID |-> f.pmid,
                 Article |->
                    IF ~f.article THEN Missing
                    ELSE El([PublicationTypeList |-> f.pubTypes,
                             Abstract |-> f.abstract,
                             ArticleTitle |-> f.title,
                             Year |-> f.year,
                             MedlineDate |-> f.medlineDate,
                             JournalTitle |-> f.journalTitle,
                             AuthorList |-> f.authorList,
                             ArticleDate |-> f.articleDate]),
                 MeshHeadingList |-> f.mesh,
                 KeywordList |-> f.keywords,
                 DateCompleted |-> f.dateCompleted,
                 DateRevised |-> f.dateRevised])]

SystematicTitle == El(TextEl(<<"A", " ", "<", "i", ">", "S", "y", "s", "t", "e", "m", "a", "t", "i", "c", "<", "/", "i", ">", " ", "R", "e", "v", "i", "e", "w">>, Missing))
EmptyTitle == El(TextEl(<<" ", "[", "<", "x", "r", "e", "f", ">", "1", "<", "/", "x", "r", "e", "f", ">", "]", " ">>, Missing))
EmptySegment == TextEl(<<"<", "x", "r", "e", "f", ">", "2", "<", "/", "x", "r", "e", "f", ">">>, El(<<"M", "E", "T", "H", "O", "D", "S">>))
JaneDoe == <<Child("ForeName", <<"J", "a", "n", "e">>), Child("LastName", <<"D", "o", "e">>)>>

\* identifier and title/abstract gates
GateFamily ==
    [pmid : {Missing, El(NoText), El(<<"7">>)},
     title : {Missing, EmptyTitle, El(TextEl(<<"H", "<", "s", "u", "b", ">", "2", "<", "/", "s", "u", "b", ">", "O", " ", "&", "l", "t", ";", " ", "x">>, Missing))},
     abstract : {Missing, El(<<EmptySegment>>),
                 El(<<EmptySegment, TextEl(<<"y">>, El(<<"R", "E", "S", "U", "L", "T", "S">>))>>)}]

\* structural review signals
ReviewFamily ==
    [pubTypes : {Missing, El(<<NoText, <<"L", "e", "t", "t", "e", "r">>>>), El(<<<<"L", "e", "t", "t", "e", "r">>, <<"R", "E", "V", "I", "E", "W">>>>)},
     mesh : {Missing, El(<<Heading(El(NoText)), Heading(El(<<"H", "u", "m", "a", "n", "s">>))>>),
             El(<<Heading(El(<<"P", "e", "e", "r", " ", "R", "e", "v", "i", "e", "w">>))>>)},
     keywords : {El(<<NoText, <<"c", "a", "n", "n", "a", "b", "i", "s">>>>), El(<<NoText, <<"R", "e", "v", "i", "e", "w", "s">>>>)}]
    \cup [mesh : {El(<<Heading(Missing)>>)},
          pubTypes : {El(<<>>), El(<<<<"R", "e", "v", "i", "e", "w">>>>)},
          keywords : {Missing, El(<<<<"r", "e", "v", "i", "e", "w">>>>)}]
    \cup [article : {FALSE}, keywords : {Missing, El(<<<<"r", "e", "v", "i", "e", "w">>>>)}]
    \cup [citation : {FALSE}]

\* the review phrase in the title, in a segment, in a category, across segments
PhraseFamily ==
    [title : {El(TextEl(<<"x">>, Missing)), SystematicTitle},
     abstract : {Missing,
                 El(<<TextEl(<<"y">>, El(<<"M", "E", "T", "H", "O", "D", "S">>))>>),
                 El(<<TextEl(<<"a", " ", "s", "y", "s", "t", "e", "m", "a", "t", "i", "c", " ", " ", "r", "e", "v", "i", "e", "w", " ", "o", "f">>, Missing)>>),
                 El(<<TextEl(<<"y">>, El(<<"S", "y", "s", "t", "e", "m", "a", "t", "i", "c", " ", "R", "e", "v", "i", "e", "w">>))>>),
                 El(<<TextEl(<<"s", "y", "s", "t", "e", "m", "a", "t", "i", "c">>, Missing), TextEl(<<"r", "e", "v", "i", "e", "w">>, Missing)>>)}]

\* year, fallback date and journal title, also on entries that a gate discards
RequiredFamily ==
    [year : {Missing, El(NoText), El(<<"2", "0", "0", "1">>)},
     medlineDate : {Missing, El(NoText), El(<<"1", "9", "9", "8", " ", "D", "e", "c", "-", "1", "9", "9", "9", " ", "J", "a", "n">>), El(<<"9", "8">>)}]
    \cup [journalTitle : {Missing, El(NoText)}]
    \cup [journalTitle : {Missing}, title : {Missing}, abstract : {Missing}]
    \cup [journalTitle : {Missing}, pmid : {Missing}]
    \cup [year : {Missing}, pubTypes : {El(<<<<"R", "e", "v", "i", "e", "w">>>>)}]
    \cup [journalTitle : {Missing}, title : {SystematicTitle}]

\* DateCompleted, DateRevised, ArticleDate
DateFamily ==
    [dateCompleted : {El(DateEl(El(<<"2", "0", "0", "1">>), El(<<"0", "2">>), El(<<"2", "8">>))),
                      El(DateEl(El(<<"2", "0", "0", "1">>), El(<<"0", "2">>), Missing)),
                      El(DateEl(El(<<"2", "0", "0", "1">>), El(NoText), El(<<"7">>))),
                      El(DateEl(El(<<"2", "0", "0", "1">>), El(<<"2">>), El(<<"3", "0">>)))}]
    \cup [dateRevised : {El(DateEl(El(<<"2", "0", "2", "0">>), El(<<"1", "2">>), El(<<"1">>))),
                         El(DateEl(Missing, El(<<"1", "2">>), El(<<"1">>)))}]
    \cup [articleDate : {El(DateEl(El(<<"2", "0", "0", "0">>), El(<<"2">>), El(<<"2", "9">>))),
                         El(DateEl(El(<<"2", "0", "0", "0">>), Missing, El(<<"2", "9">>)))}]

\* author lists
AuthorFamily ==
    [authorList : {El(<<>>),
                   El(<<JaneDoe>>),
                   El(<<<<>>, JaneDoe>>),
                   El(<<<<Child("Suffix", NoText)>>>>),
                   El(<<<<Child("CollectiveName", <<"W", "H", "O">>)>>>>),
                   El(<<<<Child("Initials", <<"J">>), Child("Identifier", <<"0">>)>>, JaneDoe>>),
                   El(<<<<Child("CollectiveName", <<"W", "H", "O">>)>>,
                        <<Child("LastName", <<"R", "o", "e">>), Child("CollectiveName", NoText)>>>>)}]

PubmedArticles ==
    {Assemble(o @@ Plain) :
        o \in GateFamily \cup ReviewFamily \cup PhraseFamily \cup RequiredFamily
              \cup DateFamily \cup AuthorFamily}

\* what the extractor gives for each entry
article_data == [e \in PubmedArticles |-> _get_abstract_data_from_xml_el(e)]

(***************************************************************************)
(* parse_file: one step per PubmedArticle element of the batch             *)
(***************************************************************************)
Init ==
    /\ batch = <<>>
    /\ records = <<>>
    /\ gen = "created"
    /\ text = <<>>
    /\ cleaned = <<>>
    /\ recleaned = <<>>
    /\ pc = "unused"

\* lines 43-45: the generator yields a record, goes on to the next element
\* after None, or lets the extractor's exception through
Resume(data) ==
    /\ gen' = CASE data.kind = "record" -> "yielded"
                 [] data.kind = "none" -> "discarded"
                 [] data.kind = "raise" -> "raised"
    /\ records' = IF data.kind = "record" THEN Append(records, data.data) ELSE records

\* lines 42-45: one iteration of the loop over findall('PubmedArticle')
ParseArticle ==
    /\ gen \in {"created", "yielded", "discarded"}
    /\ Len(batch) < MaxBatch
    /\ \E pubmed_article_el \in PubmedArticles :
        /\ batch' = Append(batch, pubmed_article_el)
        /\ Resume(article_data[pubmed_article_el])
    /\ UNCHANGED <<text, cleaned, recleaned, pc>>

\* the loop runs out of PubmedArticle elements: StopIteration
Exhaust ==
    /\ gen \in {"created", "yielded", "discarded"}
    /\ gen' = "exhausted"
    /\ UNCHANGED <<batch, records, text, cleaned, recleaned, pc>>

Next == ParseArticle \/ Exhaust

Spec == Init /\ [][Next]_vars

(***************************************************************************)
(* Properties                                                              *)
(***************************************************************************)
Last(s) == s[Len(s)]

\* the step just taken visited Last(batch)
Visited == gen \in {"yielded", "discarded", "raised"}

\* the entry just visited, its MedlineCitation and Article (when it has them)
HasCitation(e) == Found(e.MedlineCitation)
HasArticle(e) == HasCitation(e) /\ Found(e.MedlineCitation[1].Article)
CitationOf(e) == e.MedlineCitation[1]
ArticleOf(e) == e.MedlineCitation[1].Article[1]

\* some PublicationType, DescriptorName or Keyword text contains "review",
\* whatever its case
MentionsReview(t) == t # NoText /\ Contains(lower(t), <<"r", "e", "v", "i", "e", "w">>)
PubTypeSignal(c) ==
    /\ Found(c.Article)
    /\ Found(c.Article[1].PublicationTypeList)
    /\ \E k \in DOMAIN c.Article[1].PublicationTypeList[1] :
          MentionsReview(c.Article[1].PublicationTypeList[1][k])
MeshSignal(c) ==
    /\ Found(c.MeshHeadingList)
    /\ \E k \in DOMAIN c.MeshHeadingList[1] :
          /\ Found(c.MeshHeadingList[1][k].DescriptorName)
          /\ MentionsReview(c.MeshHeadingList[1][k].DescriptorName[1])
KeywordSignal(c) ==
    /\ Found(c.KeywordList)
    /\ \E k \in DOMAIN c.KeywordList[1] : MentionsReview(c.KeywordList[1][k])
HasReviewSignal(c) == PubTypeSignal(c) \/ MeshSignal(c) \/ KeywordSignal(c)

\* the citation has an Article and every MeshHeading a DescriptorName
Scannable(c) ==
    /\ Found(c.Article)
    /\ Found(c.MeshHeadingList) =>
          \A k \in DOMAIN c.MeshHeadingList[1] : Found(c.MeshHeadingList[1][k].DescriptorName)

\* the cleaned title and the cleaned abstract segments of an article
CleanTitle(a) ==
    IF Found(a.ArticleTitle)
    THEN _clean_text(tostring(<<"A", "r", "t", "i", "c", "l", "e", "T", "i", "t", "l", "e">>, a.ArticleTitle[1])) ELSE <<>>
CleanSegments(a) ==
    IF Found(a.Abstract)
    THEN [k \in DOMAIN a.Abstract[1] |->
              _clean_text(tostring(<<"A", "b", "s", "t", "r", "a", "c", "t", "T", "e", "x", "t">>, a.Abstract[1][k]))]
    ELSE <<>>
HasProse(a) == CleanTitle(a) # <<>> \/ \E k \in DOMAIN CleanSegments(a) : CleanSegments(a)[k] # <<>>
ProseHasPhrase(a) ==
    \/ Contains(lower(CleanTitle(a)), <<"s", "y", "s", "t", "e", "m", "a", "t", "i", "c", " ", "r", "e", "v", "i", "e", "w">>)
    \/ \E k \in DOMAIN CleanSegments(a) :
          Contains(lower(CleanSegments(a)[k]), <<"s", "y", "s", "t", "e", "m", "a", "t", "i", "c", " ", "r", "e", "v", "i", "e", "w">>)

\* C1: every record that parse_file yields comes from an entry that has a PMID
\* element and no review signal, holds a non-empty cleaned title or a
\* non-empty list of abstract segments with non-empty text, and has the id
\* "pubmed_" followed by its pmid.
C1_EmittedRecords ==
    /\ \A k \in DOMAIN records :
          /\ "title" \in DOMAIN records[k] \/ "abstract_texts" \in DOMAIN records[k]
          /\ "title" \in DOMAIN records[k] => records[k]["title"] # <<>>
          /\ "abstract_texts" \in DOMAIN records[k] =>
                /\ records[k]["abstract_texts"] # <<>>
                /\ \A n \in DOMAIN records[k]["abstract_texts"] :
                      records[k]["abstract_texts"][n]["text"] # <<>>
          /\ records[k]["id"] = <<"p", "u", "b", "m", "e", "d", "_">> \o Str(records[k]["pmid"])
    /\ gen = "yielded" =>
          /\ HasCitation(Last(batch))
          /\ Found(CitationOf(Last(batch)).PMID)
          /\ Last(records)["pmid"] = CitationOf(Last(batch)).PMID[1]
          /\ ~HasReviewSignal(CitationOf(Last(batch)))
          /\ _is_review(CitationOf(Last(batch))) = Return(FALSE)

\* a record without a title, yielded after another record
C1_Witness ==
    /\ gen = "yielded"
    /\ Len(records) = 2
    /\ "title" \notin DOMAIN Last(records)
    /\ Last(records)["id"] = <<"p", "u", "b", "m", "e", "d", "_", "N", "o", "n", "e">>

\* C2 (as claimed): an entry that meets one of the four discard conditions is
\* skipped without an error, whatever its year, journal title and dates hold.
MeetsDiscardCondition(e) ==
    /\ HasCitation(e)
    /\ \/ ~Found(CitationOf(e).PMID)
       \/ /\ HasArticle(e)
          /\ Scannable(CitationOf(e))
          /\ \/ HasReviewSignal(CitationOf(e))
             \/ ~HasProse(ArticleOf(e))
             \/ ProseHasPhrase(ArticleOf(e))
C2_DiscardNeverRaises ==
    (Visited /\ MeetsDiscardCondition(Last(batch))) => gen = "discarded"

\* C3: _is_review returns true exactly when some PublicationType,
\* DescriptorName or Keyword text contains "review" in any case; absent lists
\* and elements without text are no match and raise nothing; an entry whose
\* publication types contain a review yields no record.
ReviewMatchesSignal(c, review) ==
    /\ (~review.raised /\ review.value) => HasReviewSignal(c)
    /\ Scannable(c) =>
          /\ ~review.raised
          /\ review.value <=> HasReviewSignal(c)
PastEarlierGates(e) ==
    /\ HasArticle(e)
    /\ Found(CitationOf(e).PMID)
    /\ Scannable(CitationOf(e))
    /\ ~HasReviewSignal(CitationOf(e))
    /\ HasProse(ArticleOf(e))
C4_PhraseGateReadsProseOnly ==
    (gen \in {"yielded", "discarded"} /\ PastEarlierGates(Last(batch)))
        => (gen = "discarded" <=> ProseHasPhrase(ArticleOf(Last(batch))))

\* C5 (as claimed): cleaning the fragment gives "Background: values were
\* -2elevated.", the citation [12] removed.
C5_BracketedCitationRemoved ==
    (pc # "input" /\ text = Fragment)
        => cleaned = <<"B", "a", "c", "k", "g", "r", "o", "u", "n", "d", ":", " ", "v", "a", "l", "u", "e", "s", " ", "w", "e", "r", "e", " ", "-", "2", "e", "l", "e", "v", "a", "t", "e", "d", ".">>

\* C5: cleaning the fragment gives "Background: values were -2elevated [12].":
\* the tags stripped, the superscript turned into "-2", the citation [12] kept.
C5_BracketedCitationKept ==
    (pc # "input" /\ text = Fragment)
        => cleaned = <<"B", "a", "c", "k", "g", "r", "o", "u", "n", "d", ":", " ", "v", "a", "l", "u", "e", "s", " ", "w", "e", "r", "e", " ", "-", "2", "e", "l", "e", "v", "a", "t", "e", "d", " ", "[", "1", "2", "]", ".">>

\* the fragment has been cleaned
C5_Witness == pc = "cleaned" /\ text = Fragment

\* C6 (as claimed): _clean_text is idempotent, cleaning its own output changes
\* nothing.
C6_Idempotent == pc = "recleaned" => recleaned = cleaned

\* C7: the date of a yielded record is the text of PubDate/Year whenever that
\* element is there, and the first 4 characters of PubDate/MedlineDate only
\* when it is not.
First4(t) == [k \in 1..(IF Len(t) < 4 THEN Len(t) ELSE 4) |-> t[k]]
C7_YearBeforeMedlineDate ==
    gen = "yielded" =>
        /\ Found(ArticleOf(Last(batch)).Year) =>
              Last(records)["date"] = ArticleOf(Last(batch)).Year[1]
        /\ ~Found(ArticleOf(Last(batch)).Year) =>
              /\ Found(ArticleOf(Last(batch)).MedlineDate)
              /\ Last(records)["date"] = First4(ArticleOf(Last(batch)).MedlineDate[1])

\* a record from an entry that has both a Year and a different MedlineDate
C7_Witness ==
    /\ gen = "yielded"
    /\ Found(ArticleOf(Last(batch)).Year)
    /\ Found(ArticleOf(Last(batch)).MedlineDate)
    /\ ArticleOf(Last(batch)).MedlineDate[1] # NoText
    /\ Last(records)["date"] # First4(ArticleOf(Last(batch)).MedlineDate[1])

\* C8 (as claimed): _get_date gives no date, and no error, when the date
\* container or one of its Year, Month, Day is absent.
Incomplete(date_el) ==
    \/ ~Found(date_el)
    \/ ~Found(date_el[1].Year) \/ ~Found(date_el[1].Month) \/ ~Found(date_el[1].Day)
C8_PartialDateIsNoDate ==
    (Visited /\ HasArticle(Last(batch))) =>
        /\ \A key \in {"DateCompleted", "DateRevised"} :
              Incomplete(CitationOf(Last(batch))[key]) =>
                 _get_date(CitationOf(Last(batch)), key) = Return(NoDate)
        /\ Incomplete(ArticleOf(Last(batch)).ArticleDate) =>
              _get_date(ArticleOf(Last(batch)), "ArticleDate") = Return(NoDate)

\* C9 (as claimed): every author of a yielded record has a field that holds a
\* string, and the authors are the Author elements with a populated field.
Populated(author_el) ==
    \E k \in DOMAIN author_el :
        /\ author_el[k].tag \in {"ForeName", "LastName", "Initials", "Suffix"}
        /\ author_el[k].text # NoText
AuthorsOf(r) == IF "authors" \in DOMAIN r THEN r["authors"] ELSE <<>>
AuthorElsOf(a) == IF Found(a.AuthorList) THEN a.AuthorList[1] ELSE <<>>
C9_AuthorsHavePopulatedField ==
    gen = "yielded" =>
        /\ \A k \in DOMAIN AuthorsOf(Last(records)) :
              \E f \in DOMAIN AuthorsOf(Last(records))[k] :
                  AuthorsOf(Last(records))[k][f] # NoText
        /\ Len(AuthorsOf(Last(records)))
              = Cardinality({k \in DOMAIN AuthorElsOf(ArticleOf(Last(batch))) :
                                Populated(AuthorElsOf(ArticleOf(Last(batch)))[k])})

\* C10 (as claimed): an entry with a PMID, no review signal and an Article, but
\* without Year and MedlineDate or without Journal/Title, ends in an error; the
\* date and journal_title of a yielded record are always strings.
C10_RequiredFieldsAreStrings ==
    /\ (/\ Visited
        /\ HasArticle(Last(batch))
        /\ Found(CitationOf(Last(batch)).PMID)
        /\ Scannable(CitationOf(Last(batch)))
        /\ ~HasReviewSignal(CitationOf(Last(batch)))
        /\ \/ ~Found(ArticleOf(Last(batch)).Year) /\ ~Found(ArticleOf(Last(batch)).MedlineDate)
           \/ ~Found(ArticleOf(Last(batch)).JournalTitle))
          => gen = "raised"
    /\ \A k \in DOMAIN records :
          records[k]["date"] # NoText /\ records[k]["journal_title"] # NoText

====
